---- MODULE Spec2Model ----
(* A model of generator/main.py: the incremental mockup generator.         *)
(* One run of main() is a walk of the program counter pc through           *)
(*   idle -> domain -> url -> mockup -> ... -> zip -> save -> done -> idle *)
(* The history file, the crawler's URL files and the archive directory     *)
(* outlive a run; everything else is local to one run of main().           *)
EXTENDS Integers, Sequences, FiniteSets, TLC

\* ------------------------------------------------------------------ bounds
\* The crawler's URL file of a domain holds at most MaxUrls URLs.
MaxUrls == 3
\* settings.history_to_keep is drawn from 0..MaxKeep at the start of a run.
MaxKeep == 2
\* settings.max_urls_per_domain is drawn from 0..MaxCap at the start of a run.
MaxCap == 2
\* Rule selection on its own: a rule list of at most MaxRules rules, whose
\* patterns have fewer than MaxName characters, and a file name of at most
\* MaxName characters.
MaxRules == 2
MaxName == 3
\* The flood fill and the trim on their own: an image of at most
\* MaxSide x MaxSide pixels.
MaxSide == 2
\* The fit on its own: the sides of the trimmed design and of the target
\* rectangle are at most MaxDim pixels.
MaxDim == 15

\* ------------------------------------------------------- program constants
MAX_REPO_SIZE_MB == 900

\* -------------------------------------------------------- configuration
\* Strings that the code searches in are sequences of characters.
\* The domains of config.json, in configuration order (dict order).
Domains == <<"d1", "d2">>

DomainNames == {Domains[i] : i \in 1..Len(Domains)}

NoRule == [pattern |-> <<>>, is_str |-> TRUE, action |-> "process", coords |-> FALSE,
           skipWhite |-> FALSE, skipBlack |-> FALSE, mockup_sets_to_use |-> <<>>]

\* The rule lists of config.json, in their original order.  A pattern is a
\* JSON string (is_str) or, in the last rule of d2, a JSON array: len() accepts
\* it, `pattern in filename` raises TypeError on it.  The first rule of d1 has
\* no "coords".
domains_configs ==
  [d \in DomainNames |->
     IF d = "d1"
     THEN << [NoRule EXCEPT !.pattern = <<"s">>],
             [NoRule EXCEPT !.pattern = <<"f">>, !.coords = TRUE,
                            !.mockup_sets_to_use = <<"A">>],
             [NoRule EXCEPT !.pattern = <<"f", "v">>, !.coords = TRUE, !.skipBlack = TRUE,
                            !.mockup_sets_to_use = <<"X", "B", "A">>] >>
     ELSE << [NoRule EXCEPT !.pattern = <<"f">>, !.coords = TRUE, !.skipWhite = TRUE,
                            !.mockup_sets_to_use = <<"A", "B">>],
             [NoRule EXCEPT !.pattern = <<"f", "v">>, !.action = "skip"],
             [NoRule EXCEPT !.pattern = <<"q">>, !.is_str = FALSE] >>]

\* mockup_sets of config.json: set A has placement coords, set B has none
\* (m_config.get("coords") is None); the rules also name a set X that is
\* not configured.
mockup_sets_config == [n \in {"A", "B"} |-> [coords |-> (n = "A")]]

MockupNames == {"A", "B", "X"}

\* The file name of URL number n of a domain's list: os.path.basename(url).
Filenames == << <<"a", "f">>, <<"f", "v">>, <<"z", "s">>, <<"x", "x">> >>

Basename(url) == Filenames[((url - 1) % Len(Filenames)) + 1]

\* ------------------------------------------------------------ pure helpers
Min(a, b) == IF a <= b THEN a ELSE b

Range(s) == {s[i] : i \in 1..Len(s)}

\* Python's s[:k] for k >= 0.
Take(s, k) == SubSeq(s, 1, Min(k, Len(s)))

\* `pattern in filename` for two strings: a literal substring test.
IsSubstr(p, s) == \E i \in 0..(Len(s) - Len(p)) : SubSeq(s, i + 1, i + Len(p)) = p

\* Insertion of rule r into a list sorted by descending len(pattern), after
\* every rule of the same length (list.sort is stable, also with reverse).
RECURSIVE InsertByLen_BeforeEqual(_, _)
InsertByLen_BeforeEqual(r, sorted) ==
  IF sorted = <<>> THEN <<r>>
  ELSE IF Len(Head(sorted).pattern) > Len(r.pattern)
       THEN <<Head(sorted)>> \o InsertByLen_BeforeEqual(r, Tail(sorted))
       ELSE <<r>> \o sorted

RECURSIVE InsertByLen(_, _)
InsertByLen(r, sorted) ==
  IF sorted = <<>> THEN <<r>>
  ELSE IF Len(Head(sorted).pattern) >= Len(r.pattern)
       THEN <<Head(sorted)>> \o InsertByLen(r, Tail(sorted))
       ELSE <<r>> \o sorted

\* domain_rules.sort(key=lambda x: len(x['pattern']), reverse=True)
RECURSIVE SortRules(_)
SortRules(rules) ==
  IF rules = <<>> THEN <<>>
  ELSE InsertByLen(rules[Len(rules)], SortRules(SubSeq(rules, 1, Len(rules) - 1)))

\* next((rule for rule in domain_rules if rule["pattern"] in filename), None):
\* the rules are tried in order; a pattern that is not a string raises
\* TypeError when it is reached; the result is the index of the first match,
\* 0 for None, -1 for the raised TypeError.
RECURSIVE MatchFrom(_, _, _)
MatchFrom(rules, filename, i) ==
  IF i > Len(rules) THEN 0
  ELSE IF ~rules[i].is_str THEN -1
  ELSE IF IsSubstr(rules[i].pattern, filename) THEN i
  ELSE MatchFrom(rules, filename, i + 1)

MatchRule(rules, filename) == MatchFrom(rules, filename, 1)

\* Line 281: `if not matched_rule or matched_rule.get("action") == "skip"`,
\* for the index m that MatchRule found in domain_rules.
NoRuleOrSkip(domain_rules, m) == m = 0 \/ domain_rules[m].action = "skip"

\* The loop of lines 255-263; i is enumerate's 0-based index.
RECURSIVE WindowFrom(_, _, _, _)
WindowFrom(all_urls, stop_urls_set, max_urls, i) ==
  IF i >= Len(all_urls) THEN <<>>
  ELSE IF all_urls[i + 1] \in stop_urls_set THEN <<>>
  ELSE IF i >= max_urls THEN <<>>
  ELSE <<all_urls[i + 1]>> \o WindowFrom(all_urls, stop_urls_set, max_urls, i + 1)

RECURSIVE WindowSkipping(_, _, _, _)
WindowSkipping(all_urls, stop_urls_set, max_urls, i) ==
  IF i >= Len(all_urls) THEN <<>>
  ELSE IF all_urls[i + 1] \in stop_urls_set
  THEN WindowSkipping(all_urls, stop_urls_set, max_urls, i + 1)
  ELSE IF i >= max_urls THEN <<>>
  ELSE <<all_urls[i + 1]>> \o WindowSkipping(all_urls, stop_urls_set, max_urls, i + 1)

ComputeWindow_SkipsRecorded(all_urls, last_processed_urls, max_urls) ==
  WindowSkipping(all_urls, Range(last_processed_urls), max_urls, 0)

ComputeWindow_NoCutoff(all_urls, last_processed_urls, max_urls) ==
  WindowFrom(all_urls, {}, max_urls, 0)

ComputeWindow_OffByOne(all_urls, last_processed_urls, max_urls) ==
  WindowFrom(all_urls, Range(last_processed_urls), max_urls + 1, 0)

ComputeWindow(all_urls, last_processed_urls, max_urls) ==
  WindowFrom(all_urls, Range(last_processed_urls), max_urls, 0)

\* updated_urls = successfully_processed_this_run + previous; [:history_to_keep]
UpdateHistory_PreviousFirst(successes, previous, keep) ==
  Take(previous \o successes, keep)

UpdateHistory(successes, previous, keep) == Take(successes \o previous, keep)

HistoryAfter_Unguarded(successes, previous, keep) ==
  UpdateHistory(successes, previous, keep)

\* Lines 359-362: the entry of the domain after its URL loop.
HistoryAfter(successes, previous, keep) ==
  IF successes # <<>> THEN UpdateHistory(successes, previous, keep) ELSE previous

\* avg_brightness = sum(pixel[:3]) / 3;  is_white = avg_brightness > 128
IsWhite(pixel_sum) == pixel_sum > 3 * 128

\* The sums of R, G and B of the sampled pixel that the runs try.
PixelSums == {0, 384, 385, 765}

\* get_repo_size(REPO_ROOT) in MB, around the ceiling.
RepoSizes == {MAX_REPO_SIZE_MB - 1, MAX_REPO_SIZE_MB, MAX_REPO_SIZE_MB + 1}

\* download_image returns Image.open(...).convert("RGBA"); process_image
\* returns mockup_img.copy() with the design pasted: the same mode.
DownloadMode == "RGBA"

\* final_mockup.save(buf, format="JPEG"): Pillow's JPEG writer accepts these
\* modes and raises OSError("cannot write mode RGBA as JPEG") otherwise.  Line
\* 342 builds final_mockup_rgb, line 343 saves final_mockup itself.
JpegWritable_AnyMode(mode) == TRUE

JpegWritable(mode) == mode \in {"1", "L", "RGB", "RGBX", "CMYK", "YCbCr"}

\* ------------------------------------------------------------------- state
VARIABLES
  pc,                    \* where main() stands; "idle" between two runs
  remote,                \* the crawler's <domain>.txt: URLs, newest first
  saved_log,             \* the history file (processed_urls.json)
  archives,              \* generated-zips: mockup-set name -> entries written
  max_urls_per_domain,   \* settings of this run
  history_to_keep,
  processed_log,         \* the mapping loaded from the history file
  images_for_zip,        \* mockup-set name -> (domain, url) of queued images
  urls_summary,          \* domain -> counters; present = FALSE without an entry
  di,                    \* index of the domain of the loop of line 231
  urls_to_process,       \* the processing window of the current domain
  ui,                    \* index of the URL of the loop of line 277
  processed_count,
  skipped_count,
  successfully_processed_this_run,
  mockup_cache,          \* name -> cached?, and whether each base image loaded
  is_white,
  mi,                    \* index in matched_rule.mockup_sets_to_use
  matched_rule,          \* the rule matched for the current URL
  \* history variables: what the run did, kept for the properties
  loaded_log,            \* the history as loaded at the start of the run
  recorded,              \* domain -> URLs ever saved in the history file
  fetches,               \* name -> base-image fetches of this run
  fetched,               \* domain -> "no", "failed" or "ok": the list fetch
  windows,               \* domain -> the window this run computed for it
  trace,                 \* domain -> one record per URL handled in this run
  breaker_at,            \* index of the domain the size check stopped at, or 0
  save_result,           \* "none", "ok" or "failed"
  \* one function of the program run on its own, on inputs of its own
  unit_pc,               \* "off", or where the function stands
  pixels,                \* design_img.load(): (x, y) -> (R, G, B, A)
  stack,                 \* the work stack of the flood fill
  visited,               \* its visited set
  original,              \* the pixels before the flood fill (history variable)
  args,                  \* the arguments of a function called once
  result                 \* what it returned

vars == << pc, remote, saved_log, archives, max_urls_per_domain, history_to_keep,
           processed_log, images_for_zip, urls_summary, di, urls_to_process, ui,
           processed_count, skipped_count, successfully_processed_this_run,
           mockup_cache, is_white, mi, matched_rule, loaded_log, recorded, fetches, fetched,
           windows,
           trace, breaker_at, save_result,
           unit_pc, pixels, stack, visited, original, args, result >>

persistent == << remote, saved_log, archives, recorded >>
settings == << max_urls_per_domain, history_to_keep >>
run_state == << processed_log, images_for_zip, urls_summary, loaded_log, fetches, fetched,
                windows, breaker_at, save_result >>
domain_state == << urls_to_process, processed_count, skipped_count,
                   successfully_processed_this_run, mockup_cache >>
url_state == << is_white, mi, matched_rule >>
unit_state == << unit_pc, pixels, stack, visited, original, args, result >>

EmptyLog == [d \in DomainNames |-> <<>>]

\* The keys of the history file: the configured domains and d0, a domain
\* that an earlier configuration had.  A key without an entry reads as [],
\* as processed_log.get(domain, []) does.
LogDomains == DomainNames \cup {"d0"}

EmptyHistory == [d \in LogDomains |-> <<>>]

\* The history file before the first run of this configuration: the entry
\* that a run for d0 left.
LeftHistory == [EmptyHistory EXCEPT !["d0"] = <<1>>]
NoImages == [n \in MockupNames |-> <<>>]
NotCached == [cached |-> FALSE, white |-> FALSE, black |-> FALSE]
EmptyCache == [n \in MockupNames |-> NotCached]
NoSummary == [present |-> FALSE, processed |-> 0, skipped |-> 0, total_to_process |-> 0]

\* The locals of main() before a run has set them.
LocalsReset ==
  /\ max_urls_per_domain = 0 /\ history_to_keep = 0
  /\ processed_log = EmptyHistory /\ images_for_zip = NoImages
  /\ urls_summary = [d \in DomainNames |-> NoSummary]
  /\ di = 0 /\ urls_to_process = <<>> /\ ui = 0
  /\ processed_count = 0 /\ skipped_count = 0
  /\ successfully_processed_this_run = <<>>
  /\ mockup_cache = EmptyCache /\ is_white = FALSE /\ mi = 0
  /\ matched_rule = NoRule
  /\ loaded_log = EmptyHistory
  /\ fetches = [n \in MockupNames |-> 0]
  /\ fetched = [d \in DomainNames |-> "no"]
  /\ windows = EmptyLog
  /\ trace = [d \in DomainNames |-> <<>>]
  /\ breaker_at = 0 /\ save_result = "none"

\* No function is run on its own.
UnitsOff ==
  /\ unit_pc = "off"
  /\ pixels = <<>> /\ stack = <<>> /\ visited = {} /\ original = <<>>
  /\ args = <<>> /\ result = <<>>

\* Before the first run: no archive, empty URL files, no history of the
\* configured domains.
AtRest ==
  /\ pc = "idle"
  /\ remote = EmptyLog
  /\ saved_log = LeftHistory
  /\ archives = NoImages
  /\ recorded = [d \in DomainNames |-> {}]
  /\ LocalsReset

Init == AtRest /\ UnitsOff

\* ----------------------------------------------------------------- actions
\* The crawler (another repository) puts a new URL at the front of a domain's
\* file.  The run reads the file once per domain, at line 245, so an append
\* during a run has the effect of one before it or of one after it.
CrawlerAppend(d) ==
  /\ pc = "idle"
  /\ Len(remote[d]) < MaxUrls
  /\ remote' = [remote EXCEPT ![d] = <<Len(remote[d]) + 1>> \o remote[d]]
  /\ UNCHANGED << pc, saved_log, archives, recorded, settings, run_state, di, ui,
                  domain_state, url_state, trace, unit_state >>

\* Lines 199-228: cleanup_old_zips, load_config (an empty result ends the
\* run), the settings, load_processed_log.
StartRun(keeps) ==
  /\ pc = "idle"
  /\ archives' = NoImages
  /\ \E cfg_ok \in BOOLEAN, cap \in 0..MaxCap, keep \in keeps :
       IF ~cfg_ok
       THEN UNCHANGED << pc, settings, run_state, di >>
       ELSE /\ max_urls_per_domain' = cap
            /\ history_to_keep' = keep
            /\ processed_log' = saved_log
            /\ loaded_log' = saved_log
            /\ images_for_zip' = NoImages
            /\ urls_summary' = [d \in DomainNames |-> NoSummary]
            /\ di' = 1
            /\ pc' = "domain"
            /\ UNCHANGED << fetches, fetched, windows, breaker_at, save_result >>
  /\ UNCHANGED << remote, saved_log, recorded, ui, domain_state, url_state, trace, unit_state >>

\* `continue` of the domain loop, or its end.
NextDomain ==
  /\ di' = di + 1
  /\ pc' = IF di + 1 > Len(Domains) THEN "zip" ELSE "domain"

\* Line 235: the size check of the circuit breaker.
OverCeiling(size) == size >= MAX_REPO_SIZE_MB

BreakLoop_Continue == NextDomain

\* Line 237: `break` leaves the domain loop.
BreakLoop == pc' = "zip" /\ UNCHANGED di

SkipDomain_Break == BreakLoop

\* Line 249: `continue` after the list fetch raised.
SkipDomain == NextDomain

\* Lines 231-274: the head of one iteration of the domain loop.
DomainStep ==
  /\ pc = "domain"
  /\ LET domain == Domains[di] IN
     \E size \in RepoSizes, fetch_ok \in BOOLEAN :
       IF OverCeiling(size)
       THEN /\ BreakLoop
            /\ breaker_at' = di
            /\ UNCHANGED << fetched, windows, domain_state, ui >>
       ELSE /\ UNCHANGED breaker_at
            /\ IF ~fetch_ok
               THEN /\ fetched' = [fetched EXCEPT ![domain] = "failed"]
                    /\ SkipDomain
                    /\ UNCHANGED << windows, domain_state, ui >>
               ELSE LET window == ComputeWindow(remote[domain], processed_log[domain],
                                                max_urls_per_domain) IN
                    /\ fetched' = [fetched EXCEPT ![domain] = "ok"]
                    /\ windows' = [windows EXCEPT ![domain] = window]
                    /\ IF window = <<>>
                       THEN NextDomain /\ UNCHANGED << domain_state, ui >>
                       ELSE /\ urls_to_process' = window
                            /\ mockup_cache' = EmptyCache
                            /\ processed_count' = 0
                            /\ skipped_count' = 0
                            /\ successfully_processed_this_run' = <<>>
                            /\ ui' = 1
                            /\ pc' = "url"
                            /\ UNCHANGED di
  /\ UNCHANGED << persistent, settings, processed_log, images_for_zip, urls_summary,
                  loaded_log, fetches, save_result, url_state, trace, unit_state >>

\* The record kept of the URL being handled, and its update.
Outcome(url, outcome, results) == [url |-> url, outcome |-> outcome, results |-> results]

Current == trace[Domains[di]][Len(trace[Domains[di]])]

Log(rec) == trace' = [trace EXCEPT ![Domains[di]] = Append(@, rec)]

Relog(rec) == trace' = [trace EXCEPT ![Domains[di]] = [@ EXCEPT ![Len(@)] = rec]]

\* Lines 277-306: one URL of the window, up to the crop.  The rule is matched
\* before the try of line 285: a TypeError there leaves main().
UrlStep ==
  /\ pc = "url"
  /\ ui <= Len(urls_to_process)
  /\ LET url == urls_to_process[ui]
         domain_rules == SortRules(domains_configs[Domains[di]])
         m == MatchRule(domain_rules, Basename(url))
         Skip(why) == /\ skipped_count' = skipped_count + 1
                      /\ ui' = ui + 1
                      /\ Log(Outcome(url, why, <<>>))
                      /\ UNCHANGED << pc, url_state >>
     IN
     IF m = -1
     THEN /\ pc' = "crashed"
          /\ Log(Outcome(url, "uncaught-exception", <<>>))
          /\ UNCHANGED << ui, skipped_count, url_state >>
     ELSE IF NoRuleOrSkip(domain_rules, m)
     THEN Skip("skipped-no-rule")
     ELSE \E download_ok \in BOOLEAN, pixel_ok \in BOOLEAN, pixel_sum \in PixelSums :
            LET rule == domain_rules[m]
                white == IsWhite(pixel_sum)
            IN
            IF ~download_ok THEN Skip("skipped-download-failure")
            ELSE IF ~rule.coords THEN Skip("skipped-no-crop-coords")
            ELSE IF ~pixel_ok THEN Skip("skipped-exception")
            ELSE IF (rule.skipWhite /\ white) \/ (rule.skipBlack /\ ~white)
            THEN Skip("skipped-by-brightness")
            ELSE /\ matched_rule' = rule
                 /\ is_white' = white
                 /\ mi' = 1
                 /\ pc' = "mockup"
                 /\ Log(Outcome(url, "pending", <<>>))
                 /\ UNCHANGED << ui, skipped_count >>
  /\ UNCHANGED << persistent, settings, run_state, di, urls_to_process,
                  processed_count, successfully_processed_this_run, mockup_cache, unit_state >>

\* Lines 308-347: one mockup set of the matched rule, for the current URL.
MockupStep ==
  /\ pc = "mockup"
  /\ mi <= Len(matched_rule.mockup_sets_to_use)
  /\ LET mockup_name == matched_rule.mockup_sets_to_use[mi]
         url == urls_to_process[ui]
         miss == ~mockup_cache[mockup_name].cached
         Continue(why) == /\ mi' = mi + 1
                          /\ Relog([Current EXCEPT !.results = Append(@, why)])
                          /\ UNCHANGED << pc, ui, skipped_count, images_for_zip >>
         Raise(where) == /\ skipped_count' = skipped_count + 1
                         /\ ui' = ui + 1
                         /\ pc' = "url"
                         /\ Relog([Current EXCEPT !.outcome = "skipped-exception",
                                                  !.results = Append(@, where)])
                         /\ UNCHANGED << mi, images_for_zip >>
     IN
     IF miss /\ mockup_name \notin DOMAIN mockup_sets_config
     THEN Continue("unknown") /\ UNCHANGED << mockup_cache, fetches >>
     ELSE \E white_ok \in BOOLEAN, black_ok \in BOOLEAN, transparent \in BOOLEAN :
            LET mockup_data == IF miss
                               THEN [cached |-> TRUE, white |-> white_ok, black |-> black_ok]
                               ELSE mockup_cache[mockup_name]
                mockup_to_use == IF is_white THEN mockup_data.white ELSE mockup_data.black
            IN
            /\ mockup_cache' = [mockup_cache EXCEPT ![mockup_name] = mockup_data]
            /\ fetches' = IF miss THEN [fetches EXCEPT ![mockup_name] = @ + 1] ELSE fetches
            /\ IF ~mockup_to_use THEN Continue("nobase")
               ELSE IF transparent THEN Continue("transparent")
               ELSE IF ~mockup_sets_config[mockup_name].coords THEN Raise("compose-error")
               ELSE IF ~JpegWritable(DownloadMode) THEN Raise("encode-error")
               ELSE /\ images_for_zip' =
                         [images_for_zip EXCEPT ![mockup_name] =
                            Append(@, [domain |-> Domains[di], url |-> url])]
                    /\ mi' = mi + 1
                    /\ Relog([Current EXCEPT !.results = Append(@, "queued")])
                    /\ UNCHANGED << pc, ui, skipped_count >>
  /\ UNCHANGED << persistent, settings, processed_log, urls_summary, loaded_log, fetched,
                  windows, breaker_at, save_result, di, urls_to_process, processed_count,
                  successfully_processed_this_run, is_white, matched_rule, unit_state >>

UrlDone_NeedsImage ==
  /\ pc = "mockup"
  /\ mi > Len(matched_rule.mockup_sets_to_use)
  /\ LET emitted == \E j \in 1..Len(Current.results) : Current.results[j] = "queued" IN
     /\ successfully_processed_this_run' =
          IF emitted THEN Append(successfully_processed_this_run, urls_to_process[ui])
          ELSE successfully_processed_this_run
     /\ processed_count' = IF emitted THEN processed_count + 1 ELSE processed_count
     /\ skipped_count' = IF emitted THEN skipped_count ELSE skipped_count + 1
     /\ Relog([Current EXCEPT !.outcome = IF emitted THEN "processed" ELSE "skipped-no-image"])
  /\ ui' = ui + 1
  /\ pc' = "url"
  /\ UNCHANGED << persistent, settings, run_state, di, urls_to_process,
                  mockup_cache, url_state, unit_state >>

UrlDone_NotCounted ==
  /\ pc = "mockup"
  /\ mi > Len(matched_rule.mockup_sets_to_use)
  /\ successfully_processed_this_run' =
       Append(successfully_processed_this_run, urls_to_process[ui])
  /\ ui' = ui + 1
  /\ pc' = "url"
  /\ Relog([Current EXCEPT !.outcome = "processed"])
  /\ UNCHANGED << persistent, settings, run_state, di, urls_to_process, processed_count,
                  skipped_count, mockup_cache, url_state, unit_state >>

\* Lines 349-350: the mockup loop of the URL ended without an exception.
UrlDone ==
  /\ pc = "mockup"
  /\ mi > Len(matched_rule.mockup_sets_to_use)
  /\ successfully_processed_this_run' =
       Append(successfully_processed_this_run, urls_to_process[ui])
  /\ processed_count' = processed_count + 1
  /\ ui' = ui + 1
  /\ pc' = "url"
  /\ Relog([Current EXCEPT !.outcome = "processed"])
  /\ UNCHANGED << persistent, settings, run_state, di, urls_to_process, skipped_count,
                  mockup_cache, url_state, unit_state >>

\* Lines 356-362: the summary entry and the history update of the domain.
DomainEnd ==
  /\ pc = "url"
  /\ ui > Len(urls_to_process)
  /\ LET domain == Domains[di] IN
     /\ urls_summary' = [urls_summary EXCEPT ![domain] =
          [present |-> TRUE, processed |-> processed_count, skipped |-> skipped_count,
           total_to_process |-> Len(urls_to_process)]]
     /\ processed_log' =
          [processed_log EXCEPT ![domain] =
             HistoryAfter(successfully_processed_this_run, processed_log[domain],
                          history_to_keep)]
  /\ NextDomain
  /\ UNCHANGED << persistent, settings, images_for_zip, loaded_log, fetches, fetched,
                  windows, breaker_at, save_result, ui, domain_state, url_state, trace, unit_state >>

\* Lines 365-373: one archive per mockup set with a non-empty image list.
WriteZips ==
  /\ pc = "zip"
  /\ archives' = images_for_zip
  /\ pc' = "save"
  /\ UNCHANGED << remote, saved_log, recorded, settings, run_state, di, ui,
                  domain_state, url_state, trace, unit_state >>

\* Lines 376-377: save_processed_log (a write error is caught and printed),
\* then write_log.
SaveLog ==
  /\ pc = "save"
  /\ \E write_ok \in BOOLEAN :
       /\ saved_log' = IF write_ok THEN processed_log ELSE saved_log
       /\ recorded' = IF write_ok
                      THEN [d \in DomainNames |-> recorded[d] \cup Range(processed_log[d])]
                      ELSE recorded
       /\ save_result' = IF write_ok THEN "ok" ELSE "failed"
  /\ pc' = "done"
  /\ UNCHANGED << remote, archives, settings, processed_log, images_for_zip,
                  urls_summary, loaded_log, fetches, fetched, windows, breaker_at, di, ui,
                  domain_state, url_state, trace, unit_state >>

\* main() returns, or the uncaught exception ends the process: the locals go.
Exit ==
  /\ pc \in {"done", "crashed"}
  /\ pc' = "idle"
  /\ max_urls_per_domain' = 0 /\ history_to_keep' = 0
  /\ processed_log' = EmptyHistory /\ images_for_zip' = NoImages
  /\ urls_summary' = [d \in DomainNames |-> NoSummary]
  /\ di' = 0 /\ urls_to_process' = <<>> /\ ui' = 0
  /\ processed_count' = 0 /\ skipped_count' = 0
  /\ successfully_processed_this_run' = <<>>
  /\ mockup_cache' = EmptyCache /\ is_white' = FALSE /\ mi' = 0
  /\ matched_rule' = NoRule
  /\ loaded_log' = EmptyHistory
  /\ fetches' = [n \in MockupNames |-> 0]
  /\ fetched' = [d \in DomainNames |-> "no"]
  /\ windows' = EmptyLog
  /\ trace' = [d \in DomainNames |-> <<>>]
  /\ breaker_at' = 0 /\ save_result' = "none"
  /\ UNCHANGED << persistent, unit_state >>

AllKeeps == 0..MaxKeep

Next ==
  \/ \E d \in DomainNames : CrawlerAppend(d)
  \/ StartRun(AllKeeps)
  \/ DomainStep
  \/ UrlStep
  \/ MockupStep
  \/ UrlDone
  \/ DomainEnd
  \/ WriteZips
  \/ SaveLog
  \/ Exit

Spec == Init /\ [][Next]_vars

\* Runs whose configuration keeps at least one URL of history.
NextKeepOne ==
  \/ \E d \in DomainNames : CrawlerAppend(d)
  \/ StartRun(1..MaxKeep)
  \/ DomainStep
  \/ UrlStep
  \/ MockupStep
  \/ UrlDone
  \/ DomainEnd
  \/ WriteZips
  \/ SaveLog
  \/ Exit

SpecKeepOne == Init /\ [][NextKeepOne]_vars

\* The window computation on its own: the run stands at the head of the
\* domain loop with any URL file, any loaded history and any cap for the first
\* domain (the files are written outside the program), and takes its step.
SeqsUpTo(S, n) == UNION {[1..k -> S] : k \in 0..n}

InitWindow ==
  /\ pc = "domain"
  /\ di = 1
  /\ \E all_urls \in SeqsUpTo(1..MaxUrls, MaxUrls), log \in SeqsUpTo(1..MaxUrls, MaxKeep) :
       /\ remote = [EmptyLog EXCEPT !["d1"] = all_urls]
       /\ saved_log = [LeftHistory EXCEPT !["d1"] = log]
       /\ processed_log = saved_log
       /\ loaded_log = saved_log
  /\ max_urls_per_domain \in 0..MaxCap
  /\ history_to_keep = MaxKeep
  /\ archives = NoImages
  /\ recorded = [d \in DomainNames |-> {}]
  /\ images_for_zip = NoImages
  /\ urls_summary = [d \in DomainNames |-> NoSummary]
  /\ urls_to_process = <<>> /\ ui = 0
  /\ processed_count = 0 /\ skipped_count = 0
  /\ successfully_processed_this_run = <<>>
  /\ mockup_cache = EmptyCache /\ is_white = FALSE /\ mi = 0
  /\ matched_rule = NoRule
  /\ fetches = [n \in MockupNames |-> 0]
  /\ fetched = [d \in DomainNames |-> "no"]
  /\ windows = EmptyLog
  /\ trace = [d \in DomainNames |-> <<>>]
  /\ breaker_at = 0 /\ save_result = "none"
  /\ UnitsOff

NextWindow == DomainStep

SpecWindow == InitWindow /\ [][NextWindow]_vars

\* ------------------------------------------------ rule selection on its own
\* Lines 240 and 279-283 for any rule list and any file name: the patterns
\* are strings over two letters, the empty string among them, and a rule's
\* action is "process" or "skip".
Letters == {"a", "b"}

RuleSet == {[NoRule EXCEPT !.pattern = p, !.action = a] :
              p \in SeqsUpTo(Letters, MaxName - 1), a \in {"process", "skip"}}

MainIdle == AtRest /\ pixels = <<>> /\ stack = <<>> /\ visited = {} /\ original = <<>>

InitMatch ==
  /\ MainIdle
  /\ unit_pc = "match"
  /\ args \in [rules : SeqsUpTo(RuleSet, MaxRules), filename : SeqsUpTo(Letters, MaxName)]
  /\ result = <<>>

\* The sort of line 240, the search of line 279 and the test of line 281.
SelectRule ==
  /\ unit_pc = "match"
  /\ LET domain_rules == SortRules(args.rules)
         m == MatchRule(domain_rules, args.filename)
     IN result' = [matched |-> m # 0,
                   matched_rule |-> IF m = 0 THEN NoRule ELSE domain_rules[m],
                   skipped |-> NoRuleOrSkip(domain_rules, m)]
  /\ unit_pc' = "matched"
  /\ UNCHANGED << pc, persistent, settings, run_state, di, ui, domain_state, url_state,
                  trace, pixels, stack, visited, original, args >>

NextMatch == SelectRule

SpecMatch == InitMatch /\ [][NextMatch]_vars

\* ---------------------------------------------------- flood fill on its own
\* Lines 77-95 of process_image for any image of at most MaxSide x MaxSide
\* pixels.  A pixel is (R, G, B, A).  The three colours are 29 apart, or 30
\* apart in one channel: the first matches the second, the second the third,
\* the first does not match the third.
Colours == { <<10, 10, 10, 255>>, <<39, 39, 10, 255>>, <<40, 10, 10, 255>> }

Transparent == <<0, 0, 0, 0>>

Abs(n) == IF n < 0 THEN -n ELSE n

\* Line 93: each of R, G and B is less than 30 away from the seed's.
Matches(current_pixel, seed_color) ==
  \A c \in 1..3 : Abs(current_pixel[c] - seed_color[c]) < 30

\* Line 86: `not (0 <= x < design_w and 0 <= y < design_h)`, negated.
InImage(xy, design_w, design_h) ==
  0 <= xy[1] /\ xy[1] < design_w /\ 0 <= xy[2] /\ xy[2] < design_h

Neighbours_WithDiagonals(x, y) ==
  << <<x + 1, y>>, <<x - 1, y>>, <<x, y + 1>>, <<x, y - 1>>,
     <<x + 1, y + 1>>, <<x - 1, y - 1>>, <<x - 1, y + 1>>, <<x + 1, y - 1>> >>

\* Line 95: what stack.extend receives, in its order.
Neighbours(x, y) == << <<x + 1, y>>, <<x - 1, y>>, <<x, y + 1>>, <<x, y - 1>> >>

Pop_Peek(s) == s

\* Line 85: the stack after stack.pop(), which returned s[Len(s)].
Pop(s) == SubSeq(s, 1, Len(s) - 1)

\* Lines 77-83: the size, the seed colour, the stack and the visited set.
InitFill ==
  /\ AtRest
  /\ unit_pc = "fill"
  /\ \E design_w \in 1..MaxSide, design_h \in 1..MaxSide :
       /\ pixels \in [(0..(design_w - 1)) \X (0..(design_h - 1)) -> Colours]
       /\ args = [design_w |-> design_w, design_h |-> design_h,
                  seed_color |-> pixels[<<0, 0>>]]
  /\ original = pixels
  /\ stack = << <<0, 0>> >>
  /\ visited = {}
  /\ result = <<>>

\* Lines 84-95: one iteration of `while stack:`.
FillStep ==
  /\ unit_pc = "fill"
  /\ stack # <<>>
  /\ LET xy == stack[Len(stack)]
         popped == Pop(stack)
     IN
     IF xy \in visited \/ ~InImage(xy, args.design_w, args.design_h)
     THEN stack' = popped /\ UNCHANGED << visited, pixels >>
     ELSE /\ visited' = visited \cup {xy}
          /\ IF Matches(pixels[xy], args.seed_color)
             THEN /\ pixels' = [pixels EXCEPT ![xy] = Transparent]
                  /\ stack' = popped \o Neighbours(xy[1], xy[2])
             ELSE stack' = popped /\ UNCHANGED pixels
  /\ UNCHANGED << pc, persistent, settings, run_state, di, ui, domain_state, url_state,
                  trace, unit_pc, original, args, result >>

\* Line 84: the stack is empty, the loop is left.
FillEnd ==
  /\ unit_pc = "fill"
  /\ stack = <<>>
  /\ unit_pc' = "filled"
  /\ UNCHANGED << pc, persistent, settings, run_state, di, ui, domain_state, url_state,
                  trace, pixels, stack, visited, original, args, result >>

NextFill == FillStep \/ FillEnd

\* The interpreter runs the loop on: a step that can be taken is taken.
SpecFill == InitFill /\ [][NextFill]_vars /\ WF_vars(NextFill)

\* ---------------------------------------------------------- trim on its own
\* get_trimmed_image_with_padding for any image of at most MaxSide x MaxSide
\* pixels that are (0,0,0,0), as the flood fill leaves them, or opaque.
Max(a, b) == IF a >= b THEN a ELSE b

SetMin(S) == CHOOSE m \in S : \A n \in S : m <= n

SetMax(S) == CHOOSE m \in S : \A n \in S : m >= n

Opaque == <<10, 10, 10, 255>>

\* The paddings tried: none, one pixel, and the defaults of line 21.
PaddingsX == {0, 1, 40}

PaddingsY == {0, 1, 20}

\* image.getbbox(): the box (left, upper, right, lower) around the pixels
\* that are not zero, right and lower exclusive; none without such a pixel.
GetBBox(px) ==
  LET nonzero == {p \in DOMAIN px : px[p] # Transparent} IN
  IF nonzero = {} THEN [found |-> FALSE, box |-> <<0, 0, 0, 0>>]
  ELSE [found |-> TRUE,
        box |-> << SetMin({p[1] : p \in nonzero}), SetMin({p[2] : p \in nonzero}),
                   SetMax({p[1] : p \in nonzero}) + 1, SetMax({p[2] : p \in nonzero}) + 1 >>]

CropBox_Unclamped(bbox, width, height, max_padding_x, max_padding_y) ==
  << bbox[1] - max_padding_x, bbox[2] - max_padding_y,
     bbox[3] + max_padding_x, bbox[4] + max_padding_y >>

\* Lines 26-31: the box handed to image.crop.
CropBox(bbox, width, height, max_padding_x, max_padding_y) ==
  << Max(0, bbox[1] - max_padding_x), Max(0, bbox[2] - max_padding_y),
     Min(width, bbox[3] + max_padding_x), Min(height, bbox[4] + max_padding_y) >>

InitTrim ==
  /\ AtRest
  /\ unit_pc = "trim"
  /\ \E width \in 1..MaxSide, height \in 1..MaxSide :
       /\ pixels \in [(0..(width - 1)) \X (0..(height - 1)) -> {Transparent, Opaque}]
       /\ \E px \in PaddingsX, py \in PaddingsY :
            args = [width |-> width, height |-> height,
                    max_padding_x |-> px, max_padding_y |-> py]
  /\ original = pixels
  /\ stack = <<>> /\ visited = {}
  /\ result = <<>>

\* Lines 21-32: the call; returned is FALSE for None.
Trim ==
  /\ unit_pc = "trim"
  /\ LET bbox == GetBBox(pixels) IN
     result' = IF ~bbox.found THEN [returned |-> FALSE, box |-> <<0, 0, 0, 0>>]
               ELSE [returned |-> TRUE,
                     box |-> CropBox(bbox.box, args.width, args.height,
                                     args.max_padding_x, args.max_padding_y)]
  /\ unit_pc' = "trimmed"
  /\ UNCHANGED << pc, persistent, settings, run_state, di, ui, domain_state, url_state,
                  trace, pixels, stack, visited, original, args >>

NextTrim == Trim

SpecTrim == InitTrim /\ [][NextTrim]_vars

\* ----------------------------------------------------------- fit on its own
\* Lines 103-111 of process_image.  `/` of two ints and `*` of an int and a
\* float are IEEE 754 binary64 operations, each rounded to nearest, ties to
\* even.  A float here is positive and normal: 53 significand bits m, the
\* first of them 1, and the exponent e of the last bit; its value is m * 2^e.
Significand == 53

RECURSIVE IntBits(_)
IntBits(n) == IF n = 0 THEN <<>> ELSE Append(IntBits(n \div 2), n % 2)

RECURSIVE BitsVal(_)
BitsVal(bits) ==
  IF bits = <<>> THEN 0
  ELSE 2 * BitsVal(SubSeq(bits, 1, Len(bits) - 1)) + bits[Len(bits)]

Zeros(n) == [i \in 1..n |-> 0]

\* m + 1 for a significand m that is not all ones.
AddOne(m) ==
  LET k == SetMax({i \in 1..Len(m) : m[i] = 0}) IN
  [i \in 1..Len(m) |-> IF i < k THEN m[i] ELSE IF i = k THEN 1 ELSE 0]

\* Rounding of the exact value bits * 2^exp (plus something below the last
\* bit when sticky) to a float: to nearest, ties to even.
RoundToFloat(bits, exp, sticky) ==
  IF Len(bits) <= Significand
  THEN [m |-> bits \o Zeros(Significand - Len(bits)), e |-> exp - (Significand - Len(bits))]
  ELSE LET m == SubSeq(bits, 1, Significand)
           e == exp + (Len(bits) - Significand)
           rest == sticky \/ \E i \in (Significand + 2)..Len(bits) : bits[i] = 1
           up == bits[Significand + 1] = 1 /\ (rest \/ m[Significand] = 1)
       IN IF ~up THEN [m |-> m, e |-> e]
          ELSE IF \A i \in 1..Significand : m[i] = 1
               THEN [m |-> <<1>> \o Zeros(Significand - 1), e |-> e + 1]
               ELSE [m |-> AddOne(m), e |-> e]

\* The bits of a sequence of hexadecimal digits, four for each.
BitsOfHex(digits) ==
  [i \in 1..(4 * Len(digits)) |->
     (digits[((i - 1) \div 4) + 1] \div (2 ^ (3 - ((i - 1) % 4)))) % 2]

\* bits without its leading zeros; bits holds a 1.
StripZeros(bits) ==
  SubSeq(bits, SetMin({i \in 1..Len(bits) : bits[i] = 1}), Len(bits))

\* Long division of r / b for r < b: k hexadecimal digits of the quotient
\* after the point, then the remainder that is left.
RECURSIVE HexDiv(_, _, _)
HexDiv(r, b, k) ==
  IF k = 0 THEN <<r>>
  ELSE <<(16 * r) \div b>> \o HexDiv((16 * r) % b, b, k - 1)

\* The hexadecimal digits after the point that are computed: 64 bits, more
\* than a significand has after the leading zeros of a quotient of two sides.
QuotientDigits == 16

\* a / b for ints a, b >= 1.
FloatDiv(a, b) ==
  LET q == HexDiv(a % b, b, QuotientDigits)
      bits == IntBits(a \div b) \o BitsOfHex(SubSeq(q, 1, QuotientDigits))
  IN RoundToFloat(StripZeros(bits), -4 * QuotientDigits, q[QuotientDigits + 1] # 0)

\* The significand of x as its leading 1 and 13 hexadecimal digits.
HexOfBits(m) ==
  [i \in 1..14 |->
     IF i = 1 THEN m[1]
     ELSE 8 * m[4 * i - 6] + 4 * m[4 * i - 5] + 2 * m[4 * i - 4] + m[4 * i - 3]]

\* The digits of h * n + carry from digit i of h upwards, the first of them
\* not reduced below 16.
RECURSIVE MulFrom(_, _, _, _)
MulFrom(h, n, i, carry) ==
  IF i = 0 THEN <<carry>>
  ELSE Append(MulFrom(h, n, i - 1, (h[i] * n + carry) \div 16), (h[i] * n + carry) % 16)

\* n * x for an int n >= 1 and a float x.
FloatMul(n, x) ==
  LET p == MulFrom(HexOfBits(x.m), n, 14, 0)
      bits == IntBits(p[1]) \o BitsOfHex(Tail(p))
  IN RoundToFloat(StripZeros(bits), x.e, FALSE)

FloatLess(x, y) ==
  \/ x.e < y.e
  \/ x.e = y.e /\ \E i \in 1..Significand :
                    x.m[i] < y.m[i] /\ \A j \in 1..(i - 1) : x.m[j] = y.m[j]

\* min(x, y) of two floats.
FloatMin(x, y) == IF FloatLess(y, x) THEN y ELSE x

\* int(x) for a float x below 2^53: the bits above the binary point.
IntOf(x) ==
  IF Significand + x.e < 1 THEN 0 ELSE BitsVal(SubSeq(x.m, 1, Significand + x.e))

\* The corners (x, y) of the target rectangle that are tried.
Corners == { <<0, 0>>, <<3, 5>> }

InitFit ==
  /\ AtRest
  /\ unit_pc = "fit"
  /\ \E corner \in Corners, design_w \in 1..MaxDim, design_h \in 1..MaxDim,
        w \in 1..MaxDim, h \in 1..MaxDim :
       args = [design_w |-> design_w, design_h |-> design_h,
               x |-> corner[1], y |-> corner[2], w |-> w, h |-> h]
  /\ pixels = <<>> /\ original = <<>> /\ stack = <<>> /\ visited = {}
  /\ result = <<>>

\* Lines 103-111: the size of the resized design and where it is pasted.
Fit ==
  /\ unit_pc = "fit"
  /\ LET scale == FloatMin(FloatDiv(args.w, args.design_w), FloatDiv(args.h, args.design_h))
         final_w == IntOf(FloatMul(args.design_w, scale))
         final_h == IntOf(FloatMul(args.design_h, scale))
     IN result' = [final_w |-> final_w, final_h |-> final_h,
                   final_x |-> args.x + (args.w - final_w) \div 2,
                   final_y |-> args.y + 20]
  /\ unit_pc' = "fitted"
  /\ UNCHANGED << pc, persistent, settings, run_state, di, ui, domain_state, url_state,
                  trace, pixels, stack, visited, original, args >>

NextFit == Fit

SpecFit == InitFit /\ [][NextFit]_vars

\* ------------------------------------------------------------------ claims
\* The URLs of a domain that this run counted as processed, in order.
RECURSIVE ProcessedOf(_)
ProcessedOf(records) ==
  IF records = <<>> THEN <<>>
  ELSE IF Head(records).outcome = "processed"
       THEN <<Head(records).url>> \o ProcessedOf(Tail(records))
       ELSE ProcessedOf(Tail(records))

\* C1: with URL files that only grow at the front and history_to_keep >= 1
\* (SpecKeepOne), no URL that an earlier run saved in a domain's history is in
\* the processing window of a later run.
C1_NoRecordedUrlInWindow ==
  pc \in {"url", "mockup"} =>
    Range(urls_to_process) \cap recorded[Domains[di]] = {}

\* A later run works on a non-empty window of a domain with saved history.
C1_Witness ==
  /\ pc = "url"
  /\ urls_to_process # <<>>
  /\ recorded[Domains[di]] # {}
  /\ Len(remote[Domains[di]]) > Len(urls_to_process)

\* C2: the window is the longest prefix of the fetched list with no URL of
\* the stored history, cut to max_urls_per_domain URLs: a prefix, free of
\* history URLs, of at most the cap, that ends at the cap, at the end of the
\* list or just before a history URL.
IsCutPrefix(w, all_urls, history, cap) ==
  /\ Len(w) <= Len(all_urls)
  /\ w = SubSeq(all_urls, 1, Len(w))
  /\ Range(w) \cap Range(history) = {}
  /\ Len(w) <= cap
  /\ \/ Len(w) = cap
     \/ Len(w) = Len(all_urls)
     \/ all_urls[Len(w) + 1] \in Range(history)

C2_WindowIsCutPrefix ==
  /\ \A d \in DomainNames :
       fetched[d] = "ok" =>
         IsCutPrefix(windows[d], remote[d], loaded_log[d], max_urls_per_domain)
  /\ pc = "url" => urls_to_process = windows[Domains[di]]

\* The list [1,2,3] with history [3] gives the window [1,2].
C2_Witness ==
  /\ fetched["d1"] = "ok"
  /\ remote["d1"] = <<1, 2, 3>>
  /\ loaded_log["d1"] = <<3>>
  /\ windows["d1"] = <<1, 2>>
  /\ pc = "url"

\* C3: after the save of a run every domain's saved history has at most
\* history_to_keep entries.
C3_SavedHistoryBounded ==
  (pc = "done" /\ save_result = "ok") =>
    \A d \in DomainNames : Len(saved_log[d]) <= history_to_keep

\* C4: the updated history of a domain is this run's processed URLs, in
\* processing order, then the loaded history in its order, cut to the first
\* history_to_keep entries; a kept new URL precedes every kept old one.
C4_HistoryIsNewThenOld ==
  \A d \in DomainNames :
    LET succ == ProcessedOf(trace[d])
        prev == loaded_log[d]
        new == processed_log[d]
    IN (urls_summary[d].present /\ succ # <<>>) =>
         /\ Len(new) = Min(history_to_keep, Len(succ) + Len(prev))
         /\ \A i \in 1..Len(new) :
              new[i] = IF i <= Len(succ) THEN succ[i] ELSE prev[i - Len(succ)]
         /\ \A i, j \in 1..Len(new) :
              (new[i] \in Range(succ) /\ new[j] \in Range(prev)) => i < j

\* A run that put a new URL in front of a kept old one, and saved it.
C4_Witness ==
  /\ pc = "done"
  /\ save_result = "ok"
  /\ \E d \in DomainNames :
       /\ urls_summary[d].present
       /\ ProcessedOf(trace[d]) # <<>>
       /\ loaded_log[d] # <<>>
       /\ Len(saved_log[d]) > Len(ProcessedOf(trace[d]))

\* The URL passed every check and process_image returned one composite.
OneComposite(rec) ==
  Cardinality({j \in 1..Len(rec.results) :
                 rec.results[j] \in {"queued", "encode-error"}}) = 1

\* C5: a run over one domain with empty prior history whose window URLs all
\* pass the checks and give one composite for set A writes one archive for A
\* with one entry per window URL, and saves exactly the window as the history.
C5_EndToEnd ==
  \A d \in DomainNames :
    ( /\ pc = "done"
      /\ save_result = "ok"
      /\ loaded_log[d] = <<>>
      /\ windows[d] # <<>>
      /\ \A e \in DomainNames \ {d} : windows[e] = <<>>
      /\ Len(trace[d]) = Len(windows[d])
      /\ \A i \in 1..Len(trace[d]) : OneComposite(trace[d][i]) )
    => /\ Len(archives["A"]) = Len(windows[d])
       /\ \A n \in MockupNames \ {"A"} : archives[n] = <<>>
       /\ saved_log[d] = windows[d]

\* C6: an exception raised while a URL is processed, at any step, is caught:
\* the URL is counted as skipped and kept out of the history, and the run
\* goes on.
C6_ExceptionsAreCaught ==
  \A d \in DomainNames : \A i \in 1..Len(trace[d]) :
    LET r == trace[d][i] IN
    r.outcome \in {"skipped-exception", "uncaught-exception"} =>
      /\ r.outcome = "skipped-exception"
      /\ pc # "crashed"
      /\ r.url \notin Range(ProcessedOf(trace[d]))

C8_BreakerAbandonsRest ==
  breaker_at # 0 =>
    /\ pc \in {"zip", "save", "done"}
    /\ \A j \in breaker_at..Len(Domains) :
         LET d == Domains[j] IN
         /\ fetched[d] = "no"
         /\ windows[d] = <<>>
         /\ trace[d] = <<>>
         /\ processed_log[d] = loaded_log[d]
         /\ ~urls_summary[d].present
    /\ pc \in {"save", "done"} => archives = images_for_zip
    /\ (pc = "done" /\ save_result = "ok") => saved_log = processed_log

\* The breaker stopped the run at the second domain, which has URLs, and the
\* first domain's new history was saved.
C8_Witness ==
  /\ pc = "done"
  /\ breaker_at = 2
  /\ save_result = "ok"
  /\ remote["d2"] # <<>>
  /\ saved_log["d1"] # loaded_log["d1"]

\* C9: in one run the base images of a mockup set are fetched at most once.
C9_BaseImagesFetchedOnce == \A n \in MockupNames : fetches[n] <= 1

\* C10: a URL that reached the mockup loop and whose mockup sets all gave no
\* image (unknown name, no base image, transparent design) is counted as
\* processed and is among the URLs handed to the history update.
C10_NoImageStillProcessed ==
  \A d \in DomainNames : \A i \in 1..Len(trace[d]) :
    LET r == trace[d][i]
        succ == ProcessedOf(trace[d])
    IN ( /\ r.outcome # "pending"
         /\ r.results # <<>>
         /\ \A j \in 1..Len(r.results) :
              r.results[j] \in {"unknown", "nobase", "transparent"} )
       => /\ r.outcome = "processed"
          /\ (~urls_summary[d].present) => r.url \in Range(successfully_processed_this_run)
          /\ (urls_summary[d].present /\ Len(succ) <= history_to_keep)
               => r.url \in Range(processed_log[d])

\* A saved run with a processed URL whose three mockup sets were unknown,
\* without base image and transparent.
C10_Witness ==
  /\ pc = "done"
  /\ save_result = "ok"
  /\ \E d \in DomainNames : \E i \in 1..Len(trace[d]) :
       /\ trace[d][i].results = <<"unknown", "nobase", "transparent">>
       /\ trace[d][i].outcome = "processed"
       /\ trace[d][i].url \in Range(saved_log[d])

\* The rules of the configured list whose pattern is a substring of the file
\* name, by their position in the configuration.
MatchingRules == {i \in 1..Len(args.rules) : IsSubstr(args.rules[i].pattern, args.filename)}

\* The position that must win: no matching rule has a longer pattern, and
\* none of the same length stands before it.
Winner ==
  CHOOSE i \in MatchingRules :
    \A j \in MatchingRules :
      \/ Len(args.rules[j].pattern) < Len(args.rules[i].pattern)
      \/ Len(args.rules[j].pattern) = Len(args.rules[i].pattern) /\ i <= j

\* C11: for every file name and every rule list, the selected rule is the
\* matching rule with the longest pattern, the earliest of the configuration
\* among those of that length; no rule is selected exactly when no pattern is
\* a substring of the file name; the URL is counted as skipped exactly when no
\* rule is selected or the selected rule has action skip, whatever shorter
\* rules match.
C11_LongestPatternWins ==
  unit_pc = "matched" =>
    /\ result.matched <=> MatchingRules # {}
    /\ result.matched => result.matched_rule = args.rules[Winner]
    /\ result.skipped <=> (MatchingRules = {} \/ args.rules[Winner].action = "skip")

\* A skip rule is selected although a shorter process rule stands before it
\* in the configuration and matches too.
C11_Witness ==
  /\ unit_pc = "matched"
  /\ result.matched /\ result.skipped
  /\ \E i \in MatchingRules :
       /\ i < Winner
       /\ args.rules[i].action = "process"
       /\ Len(args.rules[i].pattern) < Len(result.matched_rule.pattern)
\* p and q are neighbours in the 4-connected grid.
Adjacent(p, q) == Abs(p[1] - q[1]) + Abs(p[2] - q[2]) = 1

\* The pixels joined to the pixels of S by 4-connected paths of pixels whose
\* original colour matches the seed's.
RECURSIVE ConnectedTo(_)
ConnectedTo(S) ==
  LET more == {q \in DOMAIN original :
                 /\ Matches(original[q], args.seed_color)
                 /\ \E p \in S : Adjacent(p, q)}
  IN IF more \subseteq S THEN S ELSE ConnectedTo(S \cup more)

\* C12: after the flood fill, the pixels reachable from (0,0) by a
\* 4-connected path of pixels within the tolerance of the seed's original
\* colour are (0,0,0,0), and every other pixel has its original value.
C12_ClearsConnectedRegionOnly ==
  unit_pc = "filled" =>
    \A p \in DOMAIN pixels :
      pixels[p] = IF p \in ConnectedTo({<<0, 0>>}) THEN Transparent ELSE original[p]

\* The fill ended on an image with a pixel of the seed's colour that is cut
\* off from (0,0), and on one where it cleared more than the seed pixel.
C12_Witness ==
  /\ unit_pc = "filled"
  /\ \E p \in DOMAIN pixels :
       /\ original[p] = args.seed_color
       /\ p \notin ConnectedTo({<<0, 0>>})
       /\ pixels[p] = args.seed_color
\* C14: the flood fill loop terminates for every image: the stack becomes
\* empty and the loop is left.
C14_FillTerminates == <>(unit_pc = "filled")

\* The loop ended after it had visited every pixel of an image of more than
\* one pixel, and had popped coordinates outside the image on the way.
C14_Witness ==
  /\ unit_pc = "filled"
  /\ stack = <<>>
  /\ visited = DOMAIN pixels
  /\ Cardinality(visited) > 1
\* The images queued for the archives that come from domain d.
QueuedOf(d) ==
  {n \in MockupNames : \E k \in 1..Len(images_for_zip[n]) : images_for_zip[n][k].domain = d}

\* C13: a domain whose list fetch raised is skipped in this run: it has no
\* window, none of its URLs is handled, it gets no summary entry, its history
\* entry stays as loaded, in memory and in the file, and no image of it is
\* queued; the loop goes on to the next domain, and when the loop has ended
\* without the circuit breaker every later domain has had its turn.
C13_FailedFetchSkipsDomainOnly ==
  \A j \in 1..Len(Domains) :
    fetched[Domains[j]] = "failed" =>
      /\ windows[Domains[j]] = <<>>
      /\ trace[Domains[j]] = <<>>
      /\ ~urls_summary[Domains[j]].present
      /\ processed_log[Domains[j]] = loaded_log[Domains[j]]
      /\ saved_log[Domains[j]] = loaded_log[Domains[j]]
      /\ QueuedOf(Domains[j]) = {}
      /\ di > j
      /\ (pc \in {"zip", "save", "done"} /\ breaker_at = 0) =>
            \A k \in (j + 1)..Len(Domains) : fetched[Domains[k]] # "no"

\* The run has ended and saved; the first domain's fetch failed while its
\* list held a URL newer than its history; the second domain's URL was
\* processed and recorded.
C13_Witness ==
  /\ pc = "done" /\ save_result = "ok"
  /\ fetched["d1"] = "failed"
  /\ loaded_log["d1"] # <<>>
  /\ remote["d1"] # <<>> /\ Head(remote["d1"]) \notin Range(loaded_log["d1"])
  /\ ProcessedOf(trace["d2"]) # <<>>
  /\ saved_log["d2"] # loaded_log["d2"]
\* C15: the trim returns no result exactly when the image has no pixel other
\* than (0,0,0,0); otherwise the crop box is the bounding box (x1,y1,x2,y2)
\* widened to (max(0,x1-pad_x), max(0,y1-pad_y), min(width,x2+pad_x),
\* min(height,y2+pad_y)): every pixel that is not zero lies inside it, and it
\* lies inside the image.
C15_CropBoxClamped ==
  unit_pc = "trimmed" =>
    LET nonzero == {p \in DOMAIN pixels : pixels[p] # Transparent}
        b == result.box
    IN
    /\ result.returned <=> nonzero # {}
    /\ result.returned =>
         /\ \A p \in nonzero : b[1] <= p[1] /\ p[1] < b[3] /\ b[2] <= p[2] /\ p[2] < b[4]
         /\ 0 <= b[1] /\ b[1] < b[3] /\ b[3] <= args.width
         /\ 0 <= b[2] /\ b[2] < b[4] /\ b[4] <= args.height
         /\ \A c \in {0, 1} :
              LET lo == SetMin({p[c + 1] : p \in nonzero})
                  hi == SetMax({p[c + 1] : p \in nonzero}) + 1
                  pad == IF c = 0 THEN args.max_padding_x ELSE args.max_padding_y
                  side == IF c = 0 THEN args.width ELSE args.height
              IN /\ b[c + 1] = (IF lo - pad < 0 THEN 0 ELSE lo - pad)
                 /\ b[c + 3] = (IF hi + pad > side THEN side ELSE hi + pad)

\* A box was returned that the left edge clamped and the lower edge did not,
\* for a bounding box smaller than the image.
C15_Witness ==
  /\ unit_pc = "trimmed"
  /\ result.returned
  /\ GetBBox(pixels).box[1] - args.max_padding_x < 0
  /\ result.box[1] = 0
  /\ result.box[4] = GetBBox(pixels).box[4] + args.max_padding_y
  /\ result.box[4] < args.height
\* C16: the resized design has size (floor(design_w*s), floor(design_h*s))
\* for the real number s = min(w/design_w, h/design_h), that is, the side
\* that limits the scale becomes the side of the rectangle and the other the
\* floor of the exact quotient; its width is at most w and its height at most
\* h; it is pasted at x + (w - final_w) div 2 and y + 20.
C16_SizeIsFloorOfExactScale ==
  unit_pc = "fitted" =>
    LET by_width == args.w * args.design_h <= args.h * args.design_w
        exact_w == IF by_width THEN args.w
                   ELSE (args.design_w * args.h) \div args.design_h
        exact_h == IF by_width THEN (args.design_h * args.w) \div args.design_w
                   ELSE args.h
    IN /\ result.final_w = exact_w /\ result.final_h = exact_h
       /\ result.final_w <= args.w /\ result.final_h <= args.h
       /\ result.final_x = args.x + (args.w - result.final_w) \div 2
       /\ result.final_y = args.y + 20
\* The outcomes that end the handling of a URL inside the loop of line 277.
FinalOutcomes ==
  {"processed", "skipped-no-rule", "skipped-download-failure", "skipped-no-crop-coords",
   "skipped-by-brightness", "skipped-exception"}

\* C17: a domain with a summary entry had each URL of its window handled
\* once, in order, with one final outcome; its processed and skipped counts
\* are the numbers of URLs with these outcomes and add up to
\* total_to_process, the length of the window; the list offered to the
\* history update holds the processed URLs, as many as processed_count.
C17_CountersPartitionWindow ==
  /\ \A d \in DomainNames :
       urls_summary[d].present =>
         /\ urls_summary[d].total_to_process = Len(windows[d])
         /\ urls_summary[d].processed + urls_summary[d].skipped = Len(windows[d])
         /\ Len(trace[d]) = Len(windows[d])
         /\ \A i \in 1..Len(trace[d]) :
              trace[d][i].url = windows[d][i] /\ trace[d][i].outcome \in FinalOutcomes
         /\ urls_summary[d].processed = Len(ProcessedOf(trace[d]))
  /\ pc \in {"url", "mockup"} =>
       /\ Len(successfully_processed_this_run) = processed_count
       /\ successfully_processed_this_run =
            ProcessedOf(SubSeq(trace[Domains[di]], 1, ui - 1))
       /\ processed_count + skipped_count = ui - 1

\* A domain's summary entry counts a processed URL and a skipped one.
C17_Witness ==
  \E d \in DomainNames :
    /\ urls_summary[d].present
    /\ urls_summary[d].processed >= 1
    /\ urls_summary[d].skipped >= 1
\* C18: during a run and after its save, the history entry of a domain
\* without a URL processed in this run is the loaded one, in memory and in the
\* file: a domain that is not configured, one whose fetch failed or that the
\* loop never reached, one with an empty window, one whose URLs were all
\* skipped.
C18_EntryChangesOnlyWithSuccess ==
  pc # "idle" =>
    /\ \A d \in DomainNames :
         (fetched[d] # "ok" \/ windows[d] = <<>>) => ProcessedOf(trace[d]) = <<>>
    /\ \A d \in LogDomains :
         (d \notin DomainNames \/ ProcessedOf(trace[d]) = <<>>) =>
           processed_log[d] = loaded_log[d] /\ saved_log[d] = loaded_log[d]

\* A run has saved: the first domain had a history and a window of which no
\* URL succeeded, the breaker left the loop at the second domain, and the
\* file is what was loaded, the entry of the unconfigured domain included.
C18_Witness ==
  /\ pc = "done" /\ save_result = "ok"
  /\ loaded_log["d0"] # <<>>
  /\ loaded_log["d1"] # <<>>
  /\ windows["d1"] # <<>>
  /\ ProcessedOf(trace["d1"]) = <<>>
  /\ breaker_at = 2
  /\ saved_log = loaded_log
\* C19: with URL files that only grow at the front and history_to_keep >= 1
\* (SpecKeepOne), from the start of a run to its save every URL of a window
\* stands before every URL that an earlier run recorded for the domain: a
\* URL that stands after a recorded one in the fetched list, left out by the
\* cap or skipped, is in no later window.
C19_NothingAfterRecordedIsRetried ==
  pc \in {"domain", "url", "mockup", "zip", "save", "crashed"} =>
    \A d \in DomainNames :
      \A i \in 1..Len(remote[d]), j \in 1..Len(remote[d]) :
        (remote[d][i] \in Range(windows[d]) /\ remote[d][j] \in recorded[d]) => i < j

\* A later run handles a window of a domain whose list holds, after a URL
\* that was recorded, a URL that never was.
C19_Witness ==
  /\ pc = "url"
  /\ urls_to_process # <<>>
  /\ \E i \in 1..Len(remote[Domains[di]]), j \in 1..Len(remote[Domains[di]]) :
       /\ i < j
       /\ remote[Domains[di]][i] \in recorded[Domains[di]]
       /\ remote[Domains[di]][j] \notin recorded[Domains[di]]
====
